---------------------------- MODULE Spec2Model ----------------------------
(***************************************************************************)
(* A model of the aspect-ratio bucket index of SimpleTuner's legacy        *)
(* DreamBoothDataset (src/helpers/legacy/dreambooth_dataset.py): the bulk  *)
(* computation with its forked workers and two queues, the single-file add *)
(* path, and the JSON cache file.                                          *)
(***************************************************************************)
EXTENDS Integers, Sequences, FiniteSets, TLC

(***************************************************************************)
(* Bounds of the model.                                                    *)
(***************************************************************************)
\* Number of candidate image files in instance_data_root.
MaxFiles == 3
\* Number of shards / worker processes.  The code splits into 8
\* (np.array_split(all_image_files, 8)); the model is checked with fewer.
NumShards == 2
\* Number of calls of compute_aspect_ratio_bucket_indices on one object.
MaxRuns == 2
\* Number of threads that call _add_file_to_cache concurrently.
NumAdders == 2

\* The candidate files of the directory, in the order the scan lists them.
Files == 1..MaxFiles
Shards == 0..(NumShards - 1)
Adders == 1..NumAdders

(***************************************************************************)
(* Images.  A file either decodes to an image of some size (after the EXIF *)
(* transpose) or Image.open raises on it.                                  *)
(***************************************************************************)
Corrupt == [w |-> 0, h |-> 0]
ImageSizes == <<[w |-> 1, h |-> 1], [w |-> 3, h |-> 2]>>
Decodable == {ImageSizes[i] : i \in 1..Len(ImageSizes)}
Images == Decodable \cup {Corrupt}

\* round(x, 2) of x = w / h, as a number of hundredths (ties to even).
Round2(w, h) ==
    LET n == 100 * w
        q == n \div h
        r == n % h
    IN  IF 2 * r < h THEN q
        ELSE IF 2 * r > h THEN q + 1
        ELSE IF q % 2 = 0 THEN q ELSE q + 1

\* str() of a float with at most two decimals, given as hundredths.
StrOfHundredths(c) ==
    LET ip == c \div 100
        fr == c % 100
    IN  IF fr % 10 = 0
        THEN ToString(ip) \o "." \o ToString(fr \div 10)
        ELSE IF fr < 10
             THEN ToString(ip) \o ".0" \o ToString(fr)
             ELSE ToString(ip) \o "." \o ToString(fr)

\* str(round(image.width / image.height, 2))
BucketKey(img) == StrOfHundredths(Round2(img.w, img.h))

(***************************************************************************)
(* Python dicts are functions; a dict of lists maps keys to sequences.     *)
(***************************************************************************)
EmptyDict == [k \in {} |-> <<>>]

\* d[k] = v
DictSet(d, k, v) == [x \in (DOMAIN d) \cup {k} |-> IF x = k THEN v ELSE d[x]]

\* d.update(other): every key of other replaces the value d has for it.
DictUpdate(d, other) ==
    [x \in (DOMAIN d) \cup (DOMAIN other) |->
        IF x \in DOMAIN other THEN other[x] ELSE d[x]]

Range(s) == {s[i] : i \in 1..Len(s)}

\* set().union(*d.values())
FilesOf(d) == UNION {Range(d[k]) : k \in DOMAIN d}


(***************************************************************************)
(* JSON.  A JSON object is a function from member names to members; a      *)
(* member is a list of file names or (one level down) an object of lists.  *)
(* The text of the cache file is a sequence of tokens: an opening brace,   *)
(* one token per top-level member, a closing brace.                        *)
(***************************************************************************)
JList(l) == [kind |-> "list", list |-> l, obj |-> EmptyDict]
JObj(d) == [kind |-> "obj", list |-> <<>>, obj |-> d]

LBrace == [tok |-> "{", key |-> "", val |-> JList(<<>>)]
RBrace == [tok |-> "}", key |-> "", val |-> JList(<<>>)]
Member(k, v) == [tok |-> "member", key |-> k, val |-> v]
\* Text that is not JSON ("this is not valid json").
Junk == [tok |-> "junk", key |-> "", val |-> JList(<<>>)]

WrapperKeys == <<"aspect_ratio_bucket_indices", "instance_images_path">>
BucketKeys == [i \in 1..Len(ImageSizes) |-> BucketKey(ImageSizes[i])]
\* The order in which json.dump writes the members of an object.
KeyOrder == BucketKeys \o WrapperKeys

\* The dict of lists the program holds, as a JSON object.
ToJson(d) == [k \in DOMAIN d |-> JList(d[k])]

RECURSIVE DumpMembers(_, _)
DumpMembers(obj, i) ==
    IF i > Len(KeyOrder) THEN <<>>
    ELSE IF KeyOrder[i] \in DOMAIN obj
         THEN <<Member(KeyOrder[i], obj[KeyOrder[i]])>> \o DumpMembers(obj, i + 1)
         ELSE DumpMembers(obj, i + 1)

\* json.dump(obj): the whole text.
json_dump(obj) == <<LBrace>> \o DumpMembers(obj, 1) \o <<RBrace>>

WellFormed(text) ==
    /\ Len(text) >= 2
    /\ text[1] = LBrace
    /\ text[Len(text)] = RBrace
    /\ \A i \in 2..(Len(text) - 1) : text[i].tok = "member"

\* json.load(f): the parsed object, or ok = FALSE where json.load raises.
json_load(text) ==
    IF WellFormed(text)
    THEN [ok |-> TRUE,
          value |-> [k \in {text[i].key : i \in 2..(Len(text) - 1)} |->
                       text[CHOOSE i \in 2..(Len(text) - 1) :
                               /\ text[i].key = k
                               /\ \A j \in (i + 1)..(Len(text) - 1) : text[j].key # k].val]]
    ELSE [ok |-> FALSE, value |-> EmptyDict]

(***************************************************************************)
(* State.                                                                  *)
(***************************************************************************)
VARIABLES
    image,                              \* the directory: file -> image or Corrupt
    aspect_ratio_bucket_indices,        \* self.aspect_ratio_bucket_indices
    instance_images_path,               \* self.instance_images_path
    pc,                                 \* where the coordinator (main process) is
    runs,                               \* completed bulk computations
    existing_files_set,                 \* compute's existing_files_set
    workers,                            \* the forked worker processes
    tqdm_queue,                         \* items in the progress queue's pipe
    aspect_ratio_bucket_indices_queue,  \* mappings in the result queue's pipe
    pbar,                               \* the progress bar's count
    new_file_paths,                     \* compute's new_file_paths
    cache_file,                         \* the cache file on disk
    cache_before,                       \* its content when the save began
    loaded,                             \* outcome of load_aspect_ratio_bucket_indices
    adders,                             \* threads inside _add_file_to_cache
    processed,                          \* files given to _process_image in this run
    index_before,                       \* the index when this run began
    call,                               \* the geometry function called, its arguments
                                        \* and the StateTracker configuration
    frame                               \* the local variables of that call

vars == <<image, aspect_ratio_bucket_indices, instance_images_path, pc, runs,
          existing_files_set, workers, tqdm_queue,
          aspect_ratio_bucket_indices_queue, pbar, new_file_paths, cache_file,
          cache_before, loaded, adders, processed, index_before, call,
          frame>>

bulkVars == <<existing_files_set, workers, tqdm_queue,
              aspect_ratio_bucket_indices_queue, pbar, new_file_paths,
              processed, index_before, runs>>

\* instance_images_path holds pathlib.Path objects (from iterdir) and strings.
PathEntry(f) == [type |-> "Path", name |-> f]
StrEntry(f) == [type |-> "str", name |-> f]

\* list(rglob_follow_symlinks(root, pattern)) for a flat directory.
all_image_files == [i \in 1..MaxFiles |-> i]

\* np.array_split(all_image_files, NumShards)[s]
ShardStart(s) ==
    LET q == MaxFiles \div NumShards
        r == MaxFiles % NumShards
    IN  s * q + (IF s < r THEN s ELSE r)
files_split(s) ==
    SubSeq(all_image_files, ShardStart(s) + 1, ShardStart(s + 1))

Missing == [exists |-> FALSE, text |-> <<>>]
OnDisk(text) == [exists |-> TRUE, text |-> text]

NotStarted == [alive |-> FALSE, pos |-> 0, local |-> EmptyDict,
               tqdm_buf |-> 0, res_buf |-> 0]
NoLoad == [status |-> "none", warned |-> FALSE, value |-> EmptyDict,
           src |-> Missing, during |-> ""]
IdleAdder == [pc |-> "idle", file |-> 0, key |-> ""]
\* No function of helpers/multiaspect/image.py is being called.
NoCall == [fn |-> "none"]
NoFrame == [pc |-> "none"]

\* DreamBoothDataset.__init__ up to the call of assign_to_buckets.
Init ==
    /\ image \in [Files -> Images]
    /\ aspect_ratio_bucket_indices = EmptyDict
    /\ instance_images_path = [i \in 1..MaxFiles |-> PathEntry(i)]
    /\ pc = "idle"
    /\ runs = 0
    /\ existing_files_set = {}
    /\ workers = [s \in Shards |-> NotStarted]
    /\ tqdm_queue = 0
    /\ aspect_ratio_bucket_indices_queue = <<>>
    /\ pbar = 0
    /\ new_file_paths = <<>>
    /\ cache_file = Missing
    /\ cache_before = Missing
    /\ loaded = NoLoad
    /\ adders = [t \in Adders |-> IdleAdder]
    /\ processed = {}
    /\ index_before = EmptyDict
    /\ call = NoCall
    /\ frame = NoFrame

(***************************************************************************)
(* Bulk computation: compute_aspect_ratio_bucket_indices.                  *)
(***************************************************************************)
\* _process_image(image_path_str, d): the mapping it returns.  A decode
\* failure is caught and the mapping returned as it was.
process_image(f, d) ==
    IF image[f] = Corrupt
    THEN d
    ELSE LET k == BucketKey(image[f])
             d1 == IF k \in DOMAIN d THEN d ELSE DictSet(d, k, <<>>)
         IN  DictSet(d1, k, Append(d1[k], f))

AddersQuiet == \A t \in Adders : adders[t].pc \in {"idle", "done"}

\* Lines 164-211: choose the mapping, build the queues, list and split the
\* files, take existing_files_set, fork one worker per shard.  A forked
\* worker holds its own copy of self.aspect_ratio_bucket_indices.
StartRun ==
    /\ pc = "idle"
    /\ runs < MaxRuns
    /\ AddersQuiet
    /\ pc' = "poll"
    /\ existing_files_set' = FilesOf(aspect_ratio_bucket_indices)
    /\ workers' = [s \in Shards |->
                     [alive |-> TRUE, pos |-> 0,
                      local |-> aspect_ratio_bucket_indices,
                      tqdm_buf |-> 0, res_buf |-> 0]]
    /\ tqdm_queue' = 0
    /\ aspect_ratio_bucket_indices_queue' = <<>>
    /\ pbar' = 0
    /\ new_file_paths' = <<>>
    /\ processed' = {}
    /\ index_before' = aspect_ratio_bucket_indices
    /\ adders' = [t \in Adders |-> IdleAdder]
    /\ UNCHANGED <<image, call, frame,
                   aspect_ratio_bucket_indices, instance_images_path,
                   runs, cache_file, cache_before, loaded>>

\* _process_image is about to create the bucket of f in d (line 105).
CreatesBucket(f, d) ==
    image[f] # Corrupt /\ BucketKey(image[f]) \notin DOMAIN d

\* A worker whose loop is ended by a decode failure instead of going on.
WorkerAfterAbort(w, f) ==
    IF f \in existing_files_set
    THEN [w EXCEPT !.pos = @ + 1, !.tqdm_buf = @ + 1]
    ELSE IF image[f] = Corrupt
         THEN [w EXCEPT !.alive = FALSE]
         ELSE IF CreatesBucket(f, w.local)
              THEN [w EXCEPT !.local = DictSet(@, BucketKey(image[f]), <<>>)]
              ELSE [w EXCEPT !.pos = @ + 1, !.local = process_image(f, w.local),
                             !.tqdm_buf = @ + 1, !.res_buf = @ + 1]

\* The worker after a step of _bucket_worker's loop on file f (lines 153-162).
\* The worker's mapping is read by the result queue's feeder thread while
\* the worker goes on, so the creation of a bucket (line 105) is a step of
\* its own; the rest of the iteration changes the mapping once (line 106)
\* and only appends to the queues' buffers in the worker (Queue.put).
WorkerAfter(w, f) ==
    IF f \in existing_files_set
    THEN [w EXCEPT !.pos = @ + 1, !.tqdm_buf = @ + 1]
    ELSE IF CreatesBucket(f, w.local)
         THEN [w EXCEPT !.local = DictSet(@, BucketKey(image[f]), <<>>)]
         ELSE [w EXCEPT !.pos = @ + 1, !.local = process_image(f, w.local),
                        !.tqdm_buf = @ + 1, !.res_buf = @ + 1]

WorkerStep(s) ==
    /\ workers[s].alive
    /\ workers[s].pos < Len(files_split(s))
    /\ LET f == files_split(s)[workers[s].pos + 1]
       IN  /\ workers' = [workers EXCEPT ![s] = WorkerAfter(workers[s], f)]
           /\ processed' = IF f \in existing_files_set THEN processed
                           ELSE processed \cup {f}
    /\ UNCHANGED <<image, call, frame,
                   aspect_ratio_bucket_indices, instance_images_path, pc,
                   runs, existing_files_set, tqdm_queue,
                   aspect_ratio_bucket_indices_queue, pbar, new_file_paths,
                   cache_file, cache_before, loaded, adders, index_before>>

\* The progress queue's feeder thread sends one buffered item down the pipe.
FeedTqdm(s) ==
    /\ workers[s].alive
    /\ workers[s].tqdm_buf > 0
    /\ workers' = [workers EXCEPT ![s].tqdm_buf = @ - 1]
    /\ tqdm_queue' = tqdm_queue + 1
    /\ UNCHANGED <<image, call, frame,
                   aspect_ratio_bucket_indices, instance_images_path, pc,
                   runs, existing_files_set, aspect_ratio_bucket_indices_queue,
                   pbar, new_file_paths, cache_file, cache_before, loaded,
                   adders, processed, index_before>>

\* What the result queue's feeder thread sends for a buffered put: it pickles
\* the object when it sends it, and the object is the worker's own mapping,
\* which the worker may have changed since the put.
PickledResult(s) == workers[s].local

FeedResult(s) ==
    /\ workers[s].alive
    /\ workers[s].res_buf > 0
    /\ workers' = [workers EXCEPT ![s].res_buf = @ - 1]
    /\ aspect_ratio_bucket_indices_queue' =
           Append(aspect_ratio_bucket_indices_queue, PickledResult(s))
    /\ UNCHANGED <<image, call, frame,
                   aspect_ratio_bucket_indices, instance_images_path, pc,
                   runs, existing_files_set, tqdm_queue, pbar, new_file_paths,
                   cache_file, cache_before, loaded, adders, processed,
                   index_before>>

\* The worker process ends once its loop is over and its feeder threads
\* have flushed their buffers.
WorkerExit(s) ==
    /\ workers[s].alive
    /\ workers[s].pos = Len(files_split(s))
    /\ workers[s].tqdm_buf = 0
    /\ workers[s].res_buf = 0
    /\ workers' = [workers EXCEPT ![s].alive = FALSE]
    /\ UNCHANGED <<image, call, frame,
                   aspect_ratio_bucket_indices, instance_images_path, pc,
                   runs, existing_files_set, tqdm_queue,
                   aspect_ratio_bucket_indices_queue, pbar, new_file_paths,
                   cache_file, cache_before, loaded, adders, processed,
                   index_before>>

\* Line 215: while any(p.is_alive() for p in workers)
PollAlive ==
    /\ pc = "poll"
    /\ pc' = IF \E s \in Shards : workers[s].alive
             THEN "drain_tqdm" ELSE "final_drain"
    /\ UNCHANGED <<image, call, frame,
                   aspect_ratio_bucket_indices, instance_images_path,
                   runs, existing_files_set, workers, tqdm_queue,
                   aspect_ratio_bucket_indices_queue, pbar, new_file_paths,
                   cache_file, cache_before, loaded, adders, processed,
                   index_before>>

\* Lines 216-217: while not tqdm_queue.empty(): pbar.update(tqdm_queue.get())
DrainTqdm ==
    /\ pc = "drain_tqdm"
    /\ IF tqdm_queue > 0
       THEN /\ tqdm_queue' = tqdm_queue - 1
            /\ pbar' = pbar + 1
            /\ pc' = pc
       ELSE /\ pc' = "drain_results"
            /\ UNCHANGED <<tqdm_queue, pbar>>
    /\ UNCHANGED <<image, call, frame,
                   aspect_ratio_bucket_indices, instance_images_path,
                   runs, existing_files_set, workers,
                   aspect_ratio_bucket_indices_queue, new_file_paths,
                   cache_file, cache_before, loaded, adders, processed,
                   index_before>>

\* aspect_ratio_bucket_indices.update(aspect_ratio_bucket_indices_queue.get())
MergeResult(d, msg) == DictUpdate(d, msg)

\* Lines 218-221 (in the polling loop) and 224-225 (after it).
DrainResults ==
    /\ pc \in {"drain_results", "final_drain"}
    /\ IF aspect_ratio_bucket_indices_queue # <<>>
       THEN /\ aspect_ratio_bucket_indices' =
                   MergeResult(aspect_ratio_bucket_indices,
                               Head(aspect_ratio_bucket_indices_queue))
            /\ aspect_ratio_bucket_indices_queue' =
                   Tail(aspect_ratio_bucket_indices_queue)
            /\ pc' = pc
       ELSE /\ pc' = IF pc = "drain_results" THEN "poll" ELSE "join"
            /\ UNCHANGED <<aspect_ratio_bucket_indices,
                           aspect_ratio_bucket_indices_queue>>
    /\ UNCHANGED <<image, call, frame,
                   instance_images_path, runs, existing_files_set,
                   workers, tqdm_queue, pbar, new_file_paths, cache_file,
                   cache_before, loaded, adders, processed, index_before>>

\* Lines 231-235: the files whose str() is not in instance_images_path.
RECURSIVE NewFilePaths(_, _)
NewFilePaths(known, i) ==
    IF i > Len(all_image_files) THEN <<>>
    ELSE IF StrEntry(all_image_files[i]) \in Range(known)
         THEN NewFilePaths(known, i + 1)
         ELSE <<StrEntry(all_image_files[i])>> \o NewFilePaths(known, i + 1)

\* Lines 227-241: join the (dead) workers, extend instance_images_path.
JoinAndUpdate ==
    /\ pc = "join"
    /\ \A s \in Shards : ~workers[s].alive
    /\ new_file_paths' = NewFilePaths(instance_images_path, 1)
    /\ instance_images_path' = instance_images_path \o new_file_paths'
    /\ pc' = "save_open"
    /\ UNCHANGED <<image, call, frame,
                   aspect_ratio_bucket_indices, runs,
                   existing_files_set, workers, tqdm_queue,
                   aspect_ratio_bucket_indices_queue, pbar, cache_file,
                   cache_before, loaded, adders, processed, index_before>>

(***************************************************************************)
(* Saving the cache: lines 243-246.                                        *)
(***************************************************************************)
\* What compute_aspect_ratio_bucket_indices hands to json.dump.
SavedObject == ToJson(aspect_ratio_bucket_indices)

\* cache_file.open("w") creates the file or truncates it.
SaveOpen ==
    /\ pc = "save_open"
    /\ cache_before' = cache_file
    /\ cache_file' = OnDisk(<<>>)
    /\ pc' = "save_write"
    /\ UNCHANGED <<image, call, frame,
                   aspect_ratio_bucket_indices, instance_images_path,
                   loaded, adders>>
    /\ UNCHANGED bulkVars

\* json.dump writes the text piece by piece; after the last piece the file
\* is closed.
SaveWrite ==
    /\ pc = "save_write"
    /\ cache_file' = OnDisk(Append(cache_file.text,
                                   json_dump(SavedObject)[Len(cache_file.text) + 1]))
    /\ pc' = IF Len(cache_file'.text) = Len(json_dump(SavedObject))
             THEN "returning" ELSE pc
    /\ UNCHANGED <<image, call, frame,
                   aspect_ratio_bucket_indices, instance_images_path,
                   cache_before, loaded, adders>>
    /\ UNCHANGED bulkVars

\* The with block ends and compute_aspect_ratio_bucket_indices returns:
\* its locals, the queues and the joined workers are gone.
SaveClose ==
    /\ pc = "returning"
    /\ pc' = "idle"
    /\ runs' = runs + 1
    /\ existing_files_set' = {}
    /\ workers' = [s \in Shards |-> NotStarted]
    /\ tqdm_queue' = 0
    /\ aspect_ratio_bucket_indices_queue' = <<>>
    /\ pbar' = 0
    /\ new_file_paths' = <<>>
    /\ processed' = {}
    /\ index_before' = EmptyDict
    /\ cache_before' = cache_file
    /\ UNCHANGED <<image, call, frame,
                   aspect_ratio_bucket_indices, instance_images_path,
                   cache_file, loaded, adders>>

(***************************************************************************)
(* The single-file add path: _add_file_to_cache, called from threads.      *)
(***************************************************************************)
\* Inside the with threading.Lock() block (lines 126-132).
InCritical(t) == adders[t].pc \in {"check", "create", "append"}

\* The lock a call takes: threading.Lock() at line 126 constructs a new
\* lock object in every call.
LockOf(t) == t

LockFree(l) == \A u \in Adders : ~(InCritical(u) /\ LockOf(u) = l)

\* A file that is not in the scanned directory, handed to this call of
\* thread t only.
ExtraFile(t) == MaxFiles + (runs - 1) * NumAdders + t

\* A key from height / width instead of width / height.
AddKeySwapped(img) == StrOfHundredths(Round2(img.h, img.w))

\* The bucket key a single-file add computes (lines 122-124).
AddKey(img) == BucketKey(img)

\* Lines 118-126: open and measure the image, then take the lock.  The file
\* is one of the directory or a file of the caller's own.  A decode failure
\* is caught at line 133 and logged.
AddOpen(t, f, img) ==
    /\ pc = "idle"
    /\ runs >= 1
    /\ adders[t].pc = "idle"
    /\ \/ f \in Files /\ img = image[f]
       \/ f = ExtraFile(t)
    /\ IF img = Corrupt
       THEN adders' = [adders EXCEPT ![t] = [pc |-> "done", file |-> f, key |-> ""]]
       ELSE /\ LockFree(LockOf(t))
            /\ adders' = [adders EXCEPT ![t] =
                             [pc |-> "check", file |-> f, key |-> AddKey(img)]]
    /\ UNCHANGED <<image, call, frame,
                   aspect_ratio_bucket_indices, instance_images_path,
                   pc, cache_file, cache_before, loaded>>
    /\ UNCHANGED bulkVars

\* Line 128: if str(aspect_ratio) not in self.aspect_ratio_bucket_indices
AddCheck(t) ==
    /\ adders[t].pc = "check"
    /\ adders' = [adders EXCEPT ![t].pc =
                     IF adders[t].key \in DOMAIN aspect_ratio_bucket_indices
                     THEN "append" ELSE "create"]
    /\ UNCHANGED <<image, call, frame,
                   aspect_ratio_bucket_indices, instance_images_path,
                   pc, cache_file, cache_before, loaded>>
    /\ UNCHANGED bulkVars

\* Line 129: self.aspect_ratio_bucket_indices[str(aspect_ratio)] = []
AddCreate(t) ==
    /\ adders[t].pc = "create"
    /\ aspect_ratio_bucket_indices' =
           DictSet(aspect_ratio_bucket_indices, adders[t].key, <<>>)
    /\ adders' = [adders EXCEPT ![t].pc = "append"]
    /\ UNCHANGED <<image, call, frame,
                   instance_images_path, pc, cache_file, cache_before,
                   loaded>>
    /\ UNCHANGED bulkVars

\* Lines 130-132: the append; the with block ends.
AddAppend(t) ==
    /\ adders[t].pc = "append"
    /\ aspect_ratio_bucket_indices' =
           DictSet(aspect_ratio_bucket_indices, adders[t].key,
                   Append(aspect_ratio_bucket_indices[adders[t].key],
                          adders[t].file))
    /\ adders' = [adders EXCEPT ![t].pc = "done"]
    /\ UNCHANGED <<image, call, frame,
                   instance_images_path, pc, cache_file, cache_before,
                   loaded>>
    /\ UNCHANGED bulkVars

(***************************************************************************)
(* Loading the cache: load_aspect_ratio_bucket_indices.                    *)
(***************************************************************************)
\* cache_file.open("r") is outside the try block: a missing file raises.
\* json.load is inside it: unparsable text gives {} and a warning.
LoadOutcome(file) ==
    IF ~file.exists
    THEN [status |-> "raised", warned |-> FALSE, value |-> EmptyDict]
    ELSE IF json_load(file.text).ok
         THEN [status |-> "returned", warned |-> FALSE,
               value |-> json_load(file.text).value]
         ELSE [status |-> "returned", warned |-> TRUE, value |-> EmptyDict]

\* A call of load_aspect_ratio_bucket_indices by a reader of the cache file;
\* src and during record what it read and where the save was.
Load ==
    /\ loaded.status = "none"
    /\ loaded' = [status |-> LoadOutcome(cache_file).status,
                  warned |-> LoadOutcome(cache_file).warned,
                  value |-> LoadOutcome(cache_file).value,
                  src |-> cache_file, during |-> pc]
    /\ UNCHANGED <<image, call, frame,
                   aspect_ratio_bucket_indices, instance_images_path,
                   pc, cache_file, cache_before, adders>>
    /\ UNCHANGED bulkVars

(***************************************************************************)
(* Specifications.                                                         *)
(***************************************************************************)
Next ==
    \/ StartRun
    \/ \E s \in Shards : WorkerStep(s)
    \/ \E s \in Shards : FeedTqdm(s)
    \/ \E s \in Shards : FeedResult(s)
    \/ \E s \in Shards : WorkerExit(s)
    \/ PollAlive
    \/ DrainTqdm
    \/ DrainResults
    \/ JoinAndUpdate
    \/ SaveOpen
    \/ SaveWrite
    \/ SaveClose
    \/ \E t \in Adders : \E f \in Files \cup {ExtraFile(t)}, img \in Images :
          AddOpen(t, f, img)
    \/ \E t \in Adders : AddCheck(t)
    \/ \E t \in Adders : AddCreate(t)
    \/ \E t \in Adders : AddAppend(t)

\* The dataset object: bulk computations, and single-file adds between them.
Spec == Init /\ [][Next]_vars

(***************************************************************************)
(* The cache file on its own: a save of some index over some earlier       *)
(* content of the file, and a reader that loads the file at any moment.    *)
(***************************************************************************)
\* Number of file names in the indexes and payloads the cache specification
\* starts from.
MaxCacheFiles == 2

\* Non-empty lists of file names without repetition.
FileLists ==
    {l \in UNION {[1..m -> 1..MaxCacheFiles] : m \in 1..MaxCacheFiles} :
        \A i, j \in 1..Len(l) : i # j => l[i] # l[j]}
KeySet == {BucketKeys[i] : i \in 1..Len(BucketKeys)}
\* Bucket mappings in which a file is in one bucket only.
Indexes ==
    {d \in UNION {[D -> FileLists] : D \in SUBSET KeySet} :
        \A k1, k2 \in DOMAIN d : k1 # k2 => Range(d[k1]) \cap Range(d[k2]) = {}}

\* The canonical schema of the cache payload.
Canonical(d, known) ==
    [k \in {WrapperKeys[1], WrapperKeys[2]} |->
        IF k = WrapperKeys[1] THEN JObj(d) ELSE JList(known)]

LegacyPayloads == {OnDisk(json_dump(ToJson(d))) : d \in Indexes}
CanonicalPayloads ==
    {OnDisk(json_dump(Canonical(d, l))) : d \in Indexes, l \in FileLists}
BrokenPayloads == {OnDisk(<<>>), OnDisk(<<Junk>>), OnDisk(<<LBrace>>)}

InitCache ==
    /\ image = [f \in Files |-> ImageSizes[1]]
    /\ aspect_ratio_bucket_indices \in Indexes
    /\ instance_images_path \in
           {[i \in 1..Len(l) |-> StrEntry(l[i])] : l \in FileLists}
    /\ pc = "save_open"
    /\ runs = 0
    /\ existing_files_set = {}
    /\ workers = [s \in Shards |-> NotStarted]
    /\ tqdm_queue = 0
    /\ aspect_ratio_bucket_indices_queue = <<>>
    /\ pbar = 0
    /\ new_file_paths = <<>>
    /\ cache_file \in {Missing} \cup BrokenPayloads \cup LegacyPayloads
                        \cup CanonicalPayloads
    /\ cache_before = cache_file
    /\ loaded = NoLoad
    /\ adders = [t \in Adders |-> IdleAdder]
    /\ processed = {}
    /\ index_before = EmptyDict
    /\ call = NoCall
    /\ frame = NoFrame

NextCache ==
    \/ SaveOpen
    \/ SaveWrite
    \/ SaveClose
    \/ Load

SpecCache == InitCache /\ [][NextCache]_vars

(***************************************************************************)
(* Properties.                                                             *)
(***************************************************************************)
InBucket(d, f, k) == k \in DOMAIN d /\ f \in Range(d[k])

\* The set of files of each bucket.
Membership(d) == [k \in DOMAIN d |-> Range(d[k])]

IsDecodable(f) == image[f] # Corrupt

\* A step of a bulk computation that has started.
RunStep ==
    \/ \E s \in Shards : WorkerStep(s) \/ FeedTqdm(s) \/ FeedResult(s) \/ WorkerExit(s)
    \/ PollAlive \/ DrainTqdm \/ DrainResults \/ JoinAndUpdate
    \/ SaveOpen \/ SaveWrite \/ SaveClose

\* C1: when the bulk computation returns, every candidate file that was not
\* in the index before and that decodes is in the index, under the bucket of
\* its rounded aspect ratio.
C1_DecodedFilesIndexed ==
    pc = "returning" =>
        \A f \in Files :
            (f \notin existing_files_set /\ IsDecodable(f)) =>
                InBucket(aspect_ratio_bucket_indices, f, BucketKey(image[f]))

\* What a worker's mapping is when it has gone through its whole shard,
\* starting from an empty index.
RECURSIVE ShardResult(_, _, _)
ShardResult(s, i, d) ==
    IF i > Len(files_split(s)) THEN d
    ELSE ShardResult(s, i + 1, process_image(files_split(s)[i], d))

\* The index of the first run when the workers run one after the other, in
\* the order of their shards, and the coordinator merges in that order.
RECURSIVE SequentialResult(_, _)
SequentialResult(s, d) ==
    IF s >= NumShards THEN d
    ELSE SequentialResult(s + 1, MergeResult(d, ShardResult(s, 1, EmptyDict)))

\* C2: the set of files in each bucket of the index the first bulk
\* computation returns is the same for every interleaving: it is the one of
\* the interleaving in which the workers run one after the other.
C2_MembershipDeterministic ==
    (pc = "returning" /\ runs = 0) =>
        Membership(aspect_ratio_bucket_indices)
            = Membership(SequentialResult(0, EmptyDict))

\* C2: the sequential interleaving's outcome is one the first run returns,
\* here with two shards that hold files of the same bucket.
C2_SequentialOutcome ==
    /\ pc = "returning" /\ runs = 0
    /\ Membership(aspect_ratio_bucket_indices)
           = Membership(SequentialResult(0, EmptyDict))
    /\ \E s1, s2 \in Shards :
          /\ s1 # s2
          /\ \E i \in 1..Len(files_split(s1)), j \in 1..Len(files_split(s2)) :
                /\ IsDecodable(files_split(s1)[i])
                /\ image[files_split(s1)[i]] = image[files_split(s2)[j]]

\* C3: a second bulk computation over the unchanged directory processes no
\* file that decodes, leaves the set of files of every bucket as it was when
\* it began, and adds nothing to instance_images_path.
C3_SecondRunIdempotent ==
    (pc = "returning" /\ runs >= 1) =>
        /\ \A f \in processed : ~IsDecodable(f)
        /\ Membership(aspect_ratio_bucket_indices) = Membership(index_before)
        /\ new_file_paths = <<>>

\* C4: no two callers of _add_file_to_cache are inside the locked section at
\* the same time, and a finished add of a decodable file has its file in the
\* index.
C4_AddsSerialized ==
    /\ \A t, u \in Adders : t # u => ~(InCritical(t) /\ InCritical(u))
    /\ \A t \in Adders :
          (adders[t].pc = "done" /\ adders[t].key # "") =>
              InBucket(aspect_ratio_bucket_indices, adders[t].file, adders[t].key)

\* C4: two finished adds of distinct decodable files, one of which is not in
\* the index.
C4_LostAdd ==
    \E t, u \in Adders :
        /\ t # u
        /\ adders[t].pc = "done" /\ adders[u].pc = "done"
        /\ adders[t].key # "" /\ adders[u].key # ""
        /\ adders[t].file # adders[u].file
        /\ ~InBucket(aspect_ratio_bucket_indices, adders[t].file, adders[t].key)

\* C5: no file is in more than one bucket of the index.
C5_FileInOneBucket ==
    \A k1, k2 \in DOMAIN aspect_ratio_bucket_indices :
        k1 # k2 => Range(aspect_ratio_bucket_indices[k1])
                       \cap Range(aspect_ratio_bucket_indices[k2]) = {}

\* C5: after two bulk computations and single-file adds, an index of two
\* buckets in which a directory file was also added by a single-file add.
C5_BulkAndAdds ==
    /\ pc = "idle" /\ runs >= 2
    /\ Cardinality(DOMAIN aspect_ratio_bucket_indices) >= 2
    /\ \E t \in Adders :
          /\ adders[t].pc = "done" /\ adders[t].key # ""
          /\ adders[t].file \in Files
          /\ InBucket(aspect_ratio_bucket_indices, adders[t].file, adders[t].key)

\* C6: at every moment the cache file holds either the complete content it
\* had before the save or the complete new content.
C6_SaveAtomic ==
    cache_file \in {cache_before, OnDisk(json_dump(SavedObject))}

\* The bucket mapping and the known-file list that a loaded object holds, in
\* the canonical schema or as a bare mapping.
IndexOf(v) ==
    IF WrapperKeys[1] \in DOMAIN v
    THEN ToJson(v[WrapperKeys[1]].obj)
    ELSE v
KnownOf(v) ==
    IF WrapperKeys[2] \in DOMAIN v THEN v[WrapperKeys[2]].list ELSE <<>>
Names(known) == [i \in 1..Len(known) |-> known[i].name]

\* C7: a load after a completed save gives back the bucket mapping and the
\* known-file list that were saved.
C7_RoundTrip ==
    (loaded.status # "none" /\ loaded.during = "idle") =>
        /\ loaded.status = "returned"
        /\ IndexOf(loaded.value) = ToJson(aspect_ratio_bucket_indices)
        /\ KnownOf(loaded.value) = Names(instance_images_path)

\* C8: a load of a missing or unparsable cache file returns an empty index
\* with a warning, and does not raise.
C8_LoadNeverRaises ==
    (loaded.status # "none"
        /\ (~loaded.src.exists \/ ~json_load(loaded.src.text).ok)) =>
        /\ loaded.status = "returned"
        /\ loaded.value = EmptyDict
        /\ loaded.warned

IsCanonical(v) ==
    /\ DOMAIN v = {WrapperKeys[1], WrapperKeys[2]}
    /\ v[WrapperKeys[1]].kind = "obj"
    /\ v[WrapperKeys[2]].kind = "list"
IsLegacy(v) == \A k \in DOMAIN v : k \in KeySet /\ v[k].kind = "list"

\* C9: a load of a canonical payload gives the payload's
\* aspect_ratio_bucket_indices member, with no wrapper key as a bucket key,
\* and a load of a bare mapping gives that mapping.
C9_LoadSchema ==
    (loaded.status # "none" /\ loaded.src.exists
        /\ json_load(loaded.src.text).ok) =>
        LET v == json_load(loaded.src.text).value
        IN  /\ loaded.status = "returned"
            /\ IsCanonical(v) =>
                   /\ loaded.value = ToJson(v[WrapperKeys[1]].obj)
                   /\ DOMAIN loaded.value \cap {WrapperKeys[1], WrapperKeys[2]} = {}
            /\ IsLegacy(v) => loaded.value = v

\* C10: a file that fails to decode is in no bucket; a worker leaves only
\* after the last file of its shard; a bulk computation that has started can
\* always go on; and when it returns every file that was not in the index
\* before has been processed and the cache file holds the index.
C10_DecodeFailureRecovered ==
    /\ \A f \in Files :
          ~IsDecodable(f) => f \notin FilesOf(aspect_ratio_bucket_indices)
    /\ pc # "idle" =>
          /\ \A s \in Shards :
                ~workers[s].alive => workers[s].pos = Len(files_split(s))
          /\ ENABLED RunStep
    /\ pc = "returning" =>
          /\ processed = Files \ existing_files_set
          /\ cache_file = OnDisk(json_dump(SavedObject))

\* C10: a bulk computation returns after a worker met a file that fails to
\* decode and then a file of the same shard that decodes, which is in the
\* index, as is a file of another shard.
C10_FailureThenSuccess ==
    /\ pc = "returning"
    /\ \E s \in Shards : \E i, j \in 1..Len(files_split(s)) :
          /\ i < j
          /\ ~IsDecodable(files_split(s)[i])
          /\ IsDecodable(files_split(s)[j])
          /\ files_split(s)[j] \in processed
          /\ files_split(s)[j] \in FilesOf(aspect_ratio_bucket_indices)
          /\ \E s2 \in Shards \ {s} : \E m \in 1..Len(files_split(s2)) :
                files_split(s2)[m] \in FilesOf(aspect_ratio_bucket_indices)

(***************************************************************************)
(* The geometry of helpers/multiaspect/image.py.  A Python float is        *)
(* modelled by the rational n / d it stands for, with round() rounding     *)
(* halves to even; a resolution in pixels is an integer, and one in        *)
(* megapixels is counted in thousandths of a megapixel.                    *)
(***************************************************************************)
\* round(a / b) for a >= 0 and b > 0.
RoundHalfEven(a, b) ==
    LET q == a \div b
        r == a % b
    IN  IF 2 * r < b THEN q
        ELSE IF 2 * r > b THEN q + 1
        ELSE IF q % 2 = 0 THEN q ELSE q + 1

Min(a, b) == IF a < b THEN a ELSE b
Max(a, b) == IF a > b THEN a ELSE b

RECURSIVE Pow10(_)
Pow10(p) == IF p = 0 THEN 1 ELSE 10 * Pow10(p - 1)

\* The largest k in lo..hi with k * k <= q.
RECURSIVE IsqrtBetween(_, _, _)
IsqrtBetween(q, lo, hi) ==
    IF lo = hi THEN lo
    ELSE LET mid == (lo + hi + 1) \div 2
         IN  IF mid * mid <= q THEN IsqrtBetween(q, mid, hi)
             ELSE IsqrtBetween(q, lo, mid - 1)

\* int(round((a / b) ** 0.5))
RoundSqrt(a, b) ==
    LET q == a \div b
        r == a % b
        k == IsqrtBetween(q, 0, 46340)
        e == q - k * k - k
    IN  IF e > 0 THEN k + 1
        ELSE IF e < 0 THEN k
        ELSE IF 4 * r > b THEN k + 1
        ELSE IF 4 * r < b THEN k
        ELSE IF k % 2 = 0 THEN k ELSE k + 1

\* An aspect ratio handed to the resolver: a float, or a value of another type.
PyFloat(n, d) == [type |-> "float", n |-> n, d |-> d]
PyInt(n) == [type |-> "int", n |-> n, d |-> 1]

\* Python's None, where the other values of a setting are numbers.
None == -1

\* to_round of calculate_image_aspect_ratio.
to_round(args) ==
    IF args.aspect_bucket_rounding = None THEN 2
    ELSE args.aspect_bucket_rounding

\* calculate_image_aspect_ratio((width, height)): round(width / height, to_round)
calculate_image_aspect_ratio(width, height, args) ==
    PyFloat(RoundHalfEven(width * Pow10(to_round(args)), height),
            Pow10(to_round(args)))

\* The value rounded to an integer and not to a multiple of the alignment.
round_to_nearest_multiple_unaligned(a, b, args) ==
    Max(RoundHalfEven(a, b), args.aspect_bucket_alignment)
\* _round_to_nearest_multiple(a / b)
round_to_nearest_multiple(a, b, args) ==
    LET multiple == args.aspect_bucket_alignment
        rounded == RoundHalfEven(a, b * multiple) * multiple
    IN  IF rounded > multiple THEN rounded ELSE multiple

\* The frame of a call of one of the two resolvers.
ResolverFrame(at, W, H, result) ==
    [pc |-> at, W_adjusted |-> W, H_adjusted |-> H, result |-> result]
ResolverEnter == ResolverFrame("enter", 0, 0, <<>>)
Raised(error) == [pc |-> "raise", error |-> error]
Finished(f) == f.pc \in {"return", "raise"}

\* H_adjusted = _round_to_nearest_multiple(int(round(W_adjusted * aspect_ratio)))
pixel_edge_rederive(W, aspect_ratio, args) ==
    round_to_nearest_multiple(RoundHalfEven(W * aspect_ratio.n, aspect_ratio.d),
                              1, args)

\* One step of calculate_new_size_by_pixel_edge: the entry up to the loop,
\* or one test of the loop with its body or with the return.
pixel_edge_step(f, aspect_ratio, resolution, args) ==
    IF f.pc = "enter"
    THEN IF aspect_ratio.type # "float" THEN Raised("ValueError")
         ELSE LET n == aspect_ratio.n
                  d == aspect_ratio.d
                  W == IF n > d
                       THEN round_to_nearest_multiple(resolution * n, d, args)
                       ELSE round_to_nearest_multiple(resolution, 1, args)
                  H == IF n < d
                       THEN round_to_nearest_multiple(resolution * d, n, args)
                       ELSE round_to_nearest_multiple(resolution, 1, args)
              IN  ResolverFrame("loop", W, H, <<>>)
    ELSE IF Min(f.W_adjusted, f.H_adjusted) < resolution
         THEN LET W == f.W_adjusted + args.aspect_bucket_alignment
              IN  ResolverFrame("loop", W,
                                pixel_edge_rederive(W, aspect_ratio, args), <<>>)
         ELSE ResolverFrame("return", f.W_adjusted, f.H_adjusted,
                  <<f.W_adjusted, f.H_adjusted,
                    calculate_image_aspect_ratio(f.W_adjusted, f.H_adjusted,
                                                 args)>>)

RECURSIVE pixel_edge_run(_, _, _, _)
pixel_edge_run(f, aspect_ratio, resolution, args) ==
    IF Finished(f) THEN f
    ELSE pixel_edge_run(pixel_edge_step(f, aspect_ratio, resolution, args),
                        aspect_ratio, resolution, args)

\* The outcome of calculate_new_size_by_pixel_edge(aspect_ratio, resolution).
calculate_new_size_by_pixel_edge(aspect_ratio, resolution, args) ==
    pixel_edge_run(ResolverEnter, aspect_ratio, resolution, args)

\* Two floats are equal as numbers.
FloatEq(a, b) == a.n * b.d = b.n * a.d

\* total_pixels = max(megapixels * 1e6, 1e6), megapixels in thousandths.
total_pixels(megapixels) == Max(megapixels * 1000, 1000000)

\* The special cases with a digit slip in the second.
area_special_shifted(megapixels) ==
    IF megapixels = 1000 THEN <<1024, 1024, PyFloat(1, 1)>>
    ELSE IF megapixels = 750 THEN <<786, 786, PyFloat(1, 1)>>
    ELSE IF megapixels = 500 THEN <<512, 512, PyFloat(1, 1)>>
    ELSE <<>>
\* The special cases of calculate_new_size_by_pixel_area, by megapixels.
area_special(megapixels) ==
    IF megapixels = 1000 THEN <<1024, 1024, PyFloat(1, 1)>>
    ELSE IF megapixels = 750 THEN <<768, 768, PyFloat(1, 1)>>
    ELSE IF megapixels = 500 THEN <<512, 512, PyFloat(1, 1)>>
    ELSE <<>>

\* One step of calculate_new_size_by_pixel_area.
pixel_area_step(f, aspect_ratio, megapixels, args) ==
    IF f.pc = "enter"
    THEN IF aspect_ratio.type # "float" THEN Raised("ValueError")
         ELSE IF aspect_ratio.n = aspect_ratio.d
                 /\ area_special(megapixels) # <<>>
         THEN ResolverFrame("return", area_special(megapixels)[1],
                            area_special(megapixels)[2],
                            area_special(megapixels))
         ELSE LET n == aspect_ratio.n
                  d == aspect_ratio.d
                  \* d divides total_pixels: total_pixels * n / d is exact
                  W_initial == RoundSqrt((total_pixels(megapixels) \div d) * n, 1)
                  H_initial == RoundSqrt(total_pixels(megapixels) * d, n)
              IN  ResolverFrame("loop",
                                round_to_nearest_multiple(W_initial, 1, args),
                                round_to_nearest_multiple(H_initial, 1, args),
                                <<>>)
    ELSE IF f.W_adjusted * f.H_adjusted < total_pixels(megapixels)
         THEN LET W == f.W_adjusted + args.aspect_bucket_alignment
              IN  ResolverFrame("loop", W,
                      round_to_nearest_multiple(
                          RoundHalfEven(W * aspect_ratio.d, aspect_ratio.n),
                          1, args),
                      <<>>)
         ELSE ResolverFrame("return", f.W_adjusted, f.H_adjusted,
                  <<f.W_adjusted, f.H_adjusted,
                    calculate_image_aspect_ratio(f.W_adjusted, f.H_adjusted,
                                                 args)>>)

RECURSIVE pixel_area_run(_, _, _, _)
pixel_area_run(f, aspect_ratio, megapixels, args) ==
    IF Finished(f) THEN f
    ELSE pixel_area_run(pixel_area_step(f, aspect_ratio, megapixels, args),
                        aspect_ratio, megapixels, args)

\* The outcome of calculate_new_size_by_pixel_area(aspect_ratio, megapixels).
calculate_new_size_by_pixel_area(aspect_ratio, megapixels, args) ==
    pixel_area_run(ResolverEnter, aspect_ratio, megapixels, args)

(***************************************************************************)
(* Calls of the geometry functions.  StateTracker.get_args() is read-only  *)
(* configuration; the calls are drawn from the sets below.                 *)
(***************************************************************************)
Alignments == {8, 64, 100}
Roundings == {None, 3}
TrackerArgs ==
    [aspect_bucket_alignment : Alignments, aspect_bucket_rounding : Roundings]

\* Aspect ratios handed to a resolver; the last one is not a float.
AspectRatioInputs ==
    {PyFloat(n, 100) : n \in {5, 10, 25, 33, 50, 67, 75, 80, 100, 125, 133,
                              150, 178, 200, 300, 400}}
        \cup {PyInt(1)}
\* Resolutions in pixels, and in thousandths of a megapixel.
PixelResolutions == {1, 90, 100, 512, 1000, 1024}
Megapixels == {250, 500, 750, 1000, 1024, 2000}

PixelEdgeCalls ==
    [fn : {"calculate_new_size_by_pixel_edge"},
     aspect_ratio : AspectRatioInputs, resolution : PixelResolutions,
     args : TrackerArgs]
PixelAreaCalls ==
    [fn : {"calculate_new_size_by_pixel_area"},
     aspect_ratio : AspectRatioInputs, resolution : Megapixels,
     args : TrackerArgs]

storeVars ==
    <<image, aspect_ratio_bucket_indices, instance_images_path, pc, runs,
      existing_files_set, workers, tqdm_queue,
      aspect_ratio_bucket_indices_queue, pbar, new_file_paths, cache_file,
      cache_before, loaded, adders, processed, index_before>>

\* The dataset object is not touched by the geometry functions.
StoreIdle ==
    /\ image = [f \in Files |-> Corrupt]
    /\ aspect_ratio_bucket_indices = EmptyDict
    /\ instance_images_path = <<>>
    /\ pc = "idle"
    /\ runs = 0
    /\ existing_files_set = {}
    /\ workers = [s \in Shards |-> NotStarted]
    /\ tqdm_queue = 0
    /\ aspect_ratio_bucket_indices_queue = <<>>
    /\ pbar = 0
    /\ new_file_paths = <<>>
    /\ cache_file = Missing
    /\ cache_before = Missing
    /\ loaded = NoLoad
    /\ adders = [t \in Adders |-> IdleAdder]
    /\ processed = {}
    /\ index_before = EmptyDict

PixelEdgeStep ==
    /\ call.fn = "calculate_new_size_by_pixel_edge"
    /\ ~Finished(frame)
    /\ frame' = pixel_edge_step(frame, call.aspect_ratio, call.resolution,
                                call.args)
    /\ UNCHANGED <<call, storeVars>>

PixelAreaStep ==
    /\ call.fn = "calculate_new_size_by_pixel_area"
    /\ ~Finished(frame)
    /\ frame' = pixel_area_step(frame, call.aspect_ratio, call.resolution,
                                call.args)
    /\ UNCHANGED <<call, storeVars>>

(***************************************************************************)
(* _resize_image.  The input is a PIL image ("image") or, with no image,   *)
(* the size-only metadata ("metadata"); only sizes are modelled.           *)
(***************************************************************************)
\* stages counts the intermediate resizes done so far.
ResizeFrame(at, width, height, stages, result) ==
    [pc |-> at, current_width |-> width, current_height |-> height,
     stages |-> stages, result |-> result]
ResizeEnter(size) == ResizeFrame("enter", size[1], size[2], 0, <<>>)

\* max(int(current * 0.75), target)
intermediate(current, target) == Max((current * 3) \div 4, target)

\* One step of _resize_image: the entry up to the loop, or one test of the
\* loop with its body or with the final resize and the return.
resize_step(f, mode, target_width, target_height) ==
    IF f.pc = "enter"
    THEN IF <<target_width, target_height>>
                = <<f.current_width, f.current_height>>
         THEN ResizeFrame("return", f.current_width, f.current_height, 0,
                          <<f.current_width, f.current_height>>)
         \* line 225 reads input_image.size, and input_image is None
         ELSE IF mode # "image" THEN Raised("AttributeError")
         ELSE [f EXCEPT !.pc = "loop"]
    ELSE IF 2 * f.current_width > 3 * target_width
            \/ 2 * f.current_height > 3 * target_height
         THEN ResizeFrame("loop",
                          intermediate(f.current_width, target_width),
                          intermediate(f.current_height, target_height),
                          f.stages + 1, <<>>)
         ELSE ResizeFrame("return", target_width, target_height, f.stages,
                          <<target_width, target_height>>)

RECURSIVE resize_run(_, _, _, _)
resize_run(f, mode, target_width, target_height) ==
    IF Finished(f) THEN f
    ELSE resize_run(resize_step(f, mode, target_width, target_height),
                    mode, target_width, target_height)

\* The outcome of _resize_image on an input of the given size.
resize_image(mode, size, target_width, target_height) ==
    resize_run(ResizeEnter(size), mode, target_width, target_height)

\* Sizes of images, and calls of _resize_image.
Sizes == {<<1, 1>>, <<3, 2>>, <<64, 256>>, <<512, 512>>, <<1024, 1024>>,
          <<1536, 1024>>, <<2000, 3000>>, <<4000, 2000>>}
ResizeCalls ==
    [fn : {"_resize_image"}, mode : {"image", "metadata"}, size : Sizes,
     target : Sizes]

ResizeStep ==
    /\ call.fn = "_resize_image"
    /\ ~Finished(frame)
    /\ frame' = resize_step(frame, call.mode, call.target[1], call.target[2])
    /\ UNCHANGED <<call, storeVars>>

(***************************************************************************)
(* prepare_image.  The data backend configuration (crop, crop_style,       *)
(* crop_aspect, maximum_image_size, target_downsample_size) is part of the *)
(* call; a setting that is not configured is None.                         *)
(***************************************************************************)
Truthy(x) == x # None /\ x # 0

\* is_image_too_large(image_size, resolution, resolution_type): the value
\* returned, or raised when the resolution type is unknown (ValueError).
is_image_too_large(image_size, resolution, resolution_type) ==
    IF resolution_type = "pixel"
    THEN [raised |-> FALSE,
          value |-> image_size[1] > resolution \/ image_size[2] > resolution]
    ELSE IF resolution_type = "area"
    THEN [raised |-> FALSE,
          value |-> image_size[1] * image_size[2] > resolution * 1000]
    ELSE [raised |-> TRUE, value |-> FALSE]

\* The keys of crop_handlers.
crop_handler_styles == {"corner", "centre", "center", "random"}

\* The corner of the crop box a handler chooses for a box of the given size
\* in an image of the size the handler holds; choice is the random offset.
crop_coordinates_of(style, held, box, choice) ==
    IF style = "corner" THEN <<0, 0>>
    ELSE IF style \in {"centre", "center"}
    THEN <<(held[1] - box[1]) \div 2, (held[2] - box[2]) \div 2>>
    ELSE choice
\* The offsets a random crop can draw (the two ends of the valid range).
CropChoices(held, box) ==
    {<<0, 0>>, <<Max(held[1] - box[1], 0), Max(held[2] - box[2], 0)>>}

PrepareEnter ==
    [pc |-> "enter", image_size |-> <<>>, original_resolution |-> 0,
     resolution |-> 0, downsample_before_crop |-> FALSE,
     original_aspect_ratio |-> PyFloat(0, 1), target_width |-> 0,
     target_height |-> 0, new_aspect_ratio |-> PyFloat(0, 1),
     handler_size |-> <<>>, crop_box |-> <<>>, crop_coordinates |-> <<>>,
     shrunk_size |-> <<>>, result |-> <<>>]

\* One step of prepare_image for the call c.
prepare_step(f, c, choice) ==
    LET config == c.config
        args == c.args
        crop_style == IF config.crop_style = "unset" THEN "random"
                      ELSE config.crop_style
        crop_aspect == IF config.crop_aspect = "unset" THEN "square"
                       ELSE config.crop_aspect
    IN
    IF f.pc = "enter"
    THEN \* lines 43-95
         LET considered == /\ config.crop
                           /\ Truthy(config.maximum_image_size)
                           /\ Truthy(config.target_downsample_size)
             too_large == is_image_too_large(c.size, config.maximum_image_size,
                                             c.resolution_type)
         IN  IF considered /\ too_large.raised THEN Raised("ValueError")
             ELSE [f EXCEPT
                     !.pc = "resolve",
                     !.image_size = c.size,
                     !.original_resolution =
                         round_to_nearest_multiple(c.resolution, 1, args),
                     !.resolution =
                         IF considered /\ too_large.value
                         THEN config.target_downsample_size ELSE c.resolution,
                     !.downsample_before_crop = considered /\ too_large.value]
    ELSE IF f.pc = "resolve"
    THEN \* lines 97-120
         LET ar == calculate_image_aspect_ratio(c.size[1], c.size[2], args)
             r == IF c.resolution_type = "pixel"
                  THEN calculate_new_size_by_pixel_edge(ar, f.resolution, args)
                  ELSE calculate_new_size_by_pixel_area(ar, f.resolution, args)
         IN  IF c.resolution_type \notin {"pixel", "area"}
             THEN Raised("ValueError")
             ELSE [f EXCEPT
                     !.pc = "crop_config",
                     !.original_aspect_ratio = ar,
                     !.target_width = r.result[1],
                     !.target_height = r.result[2],
                     !.new_aspect_ratio = r.result[3],
                     !.resolution =
                         IF c.resolution_type = "area"
                         THEN round_to_nearest_multiple(f.resolution, 1, args)
                         ELSE f.resolution]
    ELSE IF f.pc = "crop_config"
    THEN \* lines 122-133
         IF ~config.crop THEN [f EXCEPT !.pc = "no_crop"]
         ELSE IF crop_style \notin crop_handler_styles
         THEN Raised("ValueError")
         ELSE [f EXCEPT
                 !.pc = IF f.downsample_before_crop THEN "preshrink"
                        ELSE "crop",
                 \* the handler is given the image as it is now
                 !.handler_size = f.image_size]
    ELSE IF f.pc = "preshrink"
    THEN \* lines 134-163; line 136 reads image.size, and image is None
         IF c.mode # "image" THEN Raised("AttributeError")
         ELSE LET shrunk == resize_image("image", f.image_size,
                                         f.target_width, f.target_height)
                  r == IF c.resolution_type = "area"
                       THEN calculate_new_size_by_pixel_area(
                                f.original_aspect_ratio,
                                f.original_resolution, args)
                       ELSE calculate_new_size_by_pixel_edge(
                                f.original_aspect_ratio,
                                f.original_resolution, args)
              IN  [f EXCEPT
                     !.pc = "crop",
                     !.image_size = shrunk.result,
                     !.shrunk_size = shrunk.result,
                     !.target_width = r.result[1],
                     !.target_height = r.result[2],
                     !.new_aspect_ratio = r.result[3]]
    ELSE IF f.pc = "crop"
    THEN \* lines 165-178
         LET box == IF crop_aspect = "square"
                    THEN <<f.original_resolution, f.original_resolution>>
                    ELSE <<f.target_width, f.target_height>>
         IN  [f EXCEPT
                !.pc = "finish",
                !.crop_box = box,
                !.crop_coordinates =
                    crop_coordinates_of(crop_style, f.handler_size, box, choice),
                !.image_size = IF c.mode = "image" THEN box ELSE f.image_size]
    ELSE IF f.pc = "no_crop"
    THEN \* lines 180-185
         [f EXCEPT
            !.pc = "finish",
            !.crop_coordinates = <<0, 0>>,
            !.image_size =
                IF c.mode = "image"
                THEN resize_image("image", f.image_size, f.target_width,
                                  f.target_height).result
                ELSE f.image_size]
    ELSE \* lines 187-190
         [f EXCEPT
            !.pc = "return",
            !.result =
                IF c.mode = "image"
                THEN <<f.image_size, f.crop_coordinates, f.new_aspect_ratio>>
                ELSE <<<<f.target_width, f.target_height>>, f.crop_coordinates,
                       f.new_aspect_ratio>>]

RECURSIVE prepare_run(_, _)
prepare_run(f, c) ==
    IF Finished(f) THEN f ELSE prepare_run(prepare_step(f, c, <<0, 0>>), c)

\* The outcome of prepare_image for the call c (no random crop).
prepare_image(c) == prepare_run(PrepareEnter, c)

\* Sizes of source images, and the calls of prepare_image.
PrepareSizes == {<<1024, 1024>>, <<1536, 1024>>, <<2000, 3000>>, <<4000, 2000>>}
\* maximum_image_size and target_downsample_size: both unset, or both set
\* in the unit of the resolution type.
SizeLimits(resolution_type) ==
    {<<None, None>>,
     IF resolution_type = "area" THEN <<4000, 2000>> ELSE <<2048, 1024>>}
BackendConfigs(resolution_type) ==
    {[crop |-> crop, crop_style |-> style, crop_aspect |-> aspect,
      maximum_image_size |-> limits[1], target_downsample_size |-> limits[2]] :
        crop \in BOOLEAN,
        style \in {"center", "corner", "random", "unset", "bogus"},
        aspect \in {"square", "preserve"},
        limits \in SizeLimits(resolution_type)}
PrepareResolutions(resolution_type) ==
    IF resolution_type = "pixel" THEN {512, 1000, 1024}
    ELSE IF resolution_type = "area" THEN {500, 1000, 1500}
    ELSE {1024}
PrepareCalls ==
    {[fn |-> "prepare_image", mode |-> mode, size |-> size,
      resolution |-> resolution, resolution_type |-> type, args |-> args,
      config |-> config] :
        mode \in {"image", "metadata"}, size \in PrepareSizes,
        args \in TrackerArgs,
        <<type, resolution, config>> \in
            UNION {{<<t, r, b>> : r \in PrepareResolutions(t),
                                  b \in BackendConfigs(t)} :
                   t \in {"pixel", "area", "bogus"}}}

\* The offsets the crop of this step can draw.
StepChoices ==
    IF frame.pc = "crop" /\ call.config.crop_style \in {"random", "unset"}
    THEN CropChoices(frame.handler_size,
                     prepare_step(frame, call, <<0, 0>>).crop_box)
    ELSE {<<0, 0>>}

PrepareStep ==
    /\ call.fn = "prepare_image"
    /\ ~Finished(frame)
    /\ \E choice \in StepChoices : frame' = prepare_step(frame, call, choice)
    /\ UNCHANGED <<call, storeVars>>

\* The frame a call starts with.
EnterFrame(c) ==
    IF c.fn = "prepare_image" THEN PrepareEnter
    ELSE IF c.fn = "_resize_image" THEN ResizeEnter(c.size)
    ELSE ResolverEnter

InitGeom ==
    /\ StoreIdle
    /\ call \in PixelEdgeCalls \cup PixelAreaCalls \cup ResizeCalls
                  \cup PrepareCalls
    /\ frame = EnterFrame(call)

NextGeom ==
    \/ PixelEdgeStep
    \/ PixelAreaStep
    \/ ResizeStep
    \/ PrepareStep

\* One call of a geometry function, from its entry to its return or raise.
SpecGeom == InitGeom /\ [][NextGeom]_vars

\* One call of the pixel-edge resolver; a call that can take a step does
\* take it.
InitPixelEdge ==
    /\ StoreIdle
    /\ call \in PixelEdgeCalls
    /\ frame = ResolverEnter
NextPixelEdge == PixelEdgeStep
SpecPixelEdge ==
    InitPixelEdge /\ [][NextPixelEdge]_vars /\ WF_vars(NextPixelEdge)

\* One call of _resize_image; a call that can take a step does take it.
InitResize ==
    /\ StoreIdle
    /\ call \in ResizeCalls
    /\ frame = ResizeEnter(call.size)
NextResize == ResizeStep
SpecResize == InitResize /\ [][NextResize]_vars /\ WF_vars(NextResize)

(***************************************************************************)
(* Properties of the geometry.                                             *)
(***************************************************************************)
IsCall(fn) == call.fn = fn
Returned(fn) == call.fn = fn /\ frame.pc = "return"

\* C11: for every aspect ratio > 0 and every resolution > 0, also one that
\* is not a multiple of the alignment, calculate_new_size_by_pixel_edge
\* terminates, and the width and the height it returns are both at least
\* the resolution and both multiples of the alignment.
C11_PixelEdgeAligned ==
    /\ [](Returned("calculate_new_size_by_pixel_edge") =>
            /\ frame.result[1] >= call.resolution
            /\ frame.result[2] >= call.resolution
            /\ frame.result[1] % call.args.aspect_bucket_alignment = 0
            /\ frame.result[2] % call.args.aspect_bucket_alignment = 0)
    /\ (IsCall("calculate_new_size_by_pixel_edge")
            /\ call.aspect_ratio.type = "float")
         ~> (frame.pc = "return")
\* A call with an unaligned resolution returned after its loop had raised
\* the width.
C11_LoopRaisedWidth ==
    /\ Returned("calculate_new_size_by_pixel_edge")
    /\ call.resolution % call.args.aspect_bucket_alignment # 0
    /\ frame.result[1] >
           pixel_edge_step(ResolverEnter, call.aspect_ratio, call.resolution,
                           call.args).W_adjusted

Abs(x) == IF x < 0 THEN 0 - x ELSE x
\* The size the resolver of this call computes from the aspect ratio it
\* returned, at the same resolution.
SizeAgain ==
    IF IsCall("calculate_new_size_by_pixel_edge")
    THEN calculate_new_size_by_pixel_edge(frame.result[3], call.resolution,
                                          call.args).result
    ELSE calculate_new_size_by_pixel_area(frame.result[3], call.resolution,
                                          call.args).result

\* C12: if (W, H) is the size a resolver computes for an aspect ratio and a
\* resolution, the size it computes from the rounded aspect ratio W / H at
\* the same resolution differs from (W, H) by at most one alignment step in
\* each dimension, and (W, H) keeps the orientation of the input: a tall
\* input gives no wide size, a wide input no tall one.
C12_GeometryRoundTrip ==
    (Returned("calculate_new_size_by_pixel_edge")
        \/ Returned("calculate_new_size_by_pixel_area")) =>
      /\ Abs(SizeAgain[1] - frame.result[1])
             <= call.args.aspect_bucket_alignment
      /\ Abs(SizeAgain[2] - frame.result[2])
             <= call.args.aspect_bucket_alignment
      /\ call.aspect_ratio.n < call.aspect_ratio.d
             => frame.result[1] <= frame.result[2]
      /\ call.aspect_ratio.n > call.aspect_ratio.d
             => frame.result[1] >= frame.result[2]

\* Passes of the resolver's loop that the general rule below looks at.
MaxPasses == 4

\* The size the general rule of the area resolver has after k passes of its
\* loop: the aligned square-root sizes, then width raised by k alignment
\* steps and the height re-derived from it.
AreaCandidate(k) ==
    LET n == call.aspect_ratio.n
        d == call.aspect_ratio.d
        total == Max(call.resolution * 1000, 1000000)
        W == round_to_nearest_multiple(RoundSqrt((total \div d) * n, 1), 1,
                                       call.args)
             + k * call.args.aspect_bucket_alignment
    IN  IF k = 0
        THEN <<W, round_to_nearest_multiple(RoundSqrt(total * d, n), 1,
                                            call.args)>>
        ELSE <<W, round_to_nearest_multiple(RoundHalfEven(W * d, n), 1,
                                            call.args)>>
AreaSpecialInput ==
    /\ call.aspect_ratio.n = call.aspect_ratio.d
    /\ call.resolution \in {1000, 750, 500}

\* C13: in area mode with aspect ratio exactly 1.0 the resolver returns
\* exactly (1024, 1024) for 1.0 megapixels, (768, 768) for 0.75 and
\* (512, 512) for 0.5, each with aspect ratio 1.0, whatever the alignment
\* is; for every other input the result is that of the general rule with
\* total_pixels = max(megapixels * 1e6, 1e6): the first size of the
\* sequence of candidates whose area is at least total_pixels.
C13_AreaSpecialCases ==
    Returned("calculate_new_size_by_pixel_area") =>
      IF AreaSpecialInput
      THEN /\ <<frame.result[1], frame.result[2]>> =
                  IF call.resolution = 1000 THEN <<1024, 1024>>
                  ELSE IF call.resolution = 750 THEN <<768, 768>>
                  ELSE <<512, 512>>
           /\ frame.result[3].n = frame.result[3].d
      ELSE \E k \in 0..MaxPasses :
              /\ <<frame.result[1], frame.result[2]>> = AreaCandidate(k)
              /\ frame.result[1] * frame.result[2]
                     >= Max(call.resolution * 1000, 1000000)
              /\ \A j \in 0..(k - 1) :
                     AreaCandidate(j)[1] * AreaCandidate(j)[2]
                         < Max(call.resolution * 1000, 1000000)
              /\ frame.result[3] =
                     calculate_image_aspect_ratio(frame.result[1],
                                                  frame.result[2], call.args)
\* The 0.75 megapixel special case returned (768, 768) under an alignment
\* that 768 is no multiple of.
C13_SpecialCaseUnaligned ==
    /\ Returned("calculate_new_size_by_pixel_area")
    /\ AreaSpecialInput
    /\ call.resolution = 750
    /\ 768 % call.args.aspect_bucket_alignment # 0
    /\ frame.result[1] = 768

\* The size and aspect ratio the resolver of the call's resolution type
\* returns for the source's aspect ratio and the configured resolution.
DirectGeometry ==
    IF call.resolution_type = "area"
    THEN calculate_new_size_by_pixel_area(frame.original_aspect_ratio,
                                          call.resolution, call.args).result
    ELSE calculate_new_size_by_pixel_edge(frame.original_aspect_ratio,
                                          call.resolution, call.args).result

\* C14: when cropping is enabled, maximum_image_size and
\* target_downsample_size are set and the source exceeds the maximum, the
\* target width, height and aspect ratio prepare_image ends with are those
\* the resolver returns directly for the same aspect ratio and the
\* configured resolution, in pixel and in area mode, also for a resolution
\* that is not a multiple of the alignment.
C14_OversizedGeometryUnaffected ==
    (Returned("prepare_image") /\ frame.downsample_before_crop) =>
        <<frame.target_width, frame.target_height, frame.new_aspect_ratio>>
            = DirectGeometry

\* C15: when the oversized-source policy triggers, the pre-shrink happens
\* before the crop, and the dimensions from which the crop box is chosen
\* are those of the pre-shrunk working image (the downsample target), never
\* those of the original full-size source.
C15_CropOnPreShrunk ==
    (IsCall("prepare_image") /\ frame.pc \in {"crop", "finish", "return"}
        /\ frame.downsample_before_crop) =>
      /\ frame.shrunk_size # <<>>
      /\ frame.handler_size = frame.shrunk_size
      /\ frame.handler_size # call.size

\* The crop of the call, if any, is not a random one.
DeterministicCrop ==
    ~call.config.crop \/ call.config.crop_style \in {"corner", "centre", "center"}
\* What prepare_image does for the same call with the image itself.
PixelPath == prepare_image([call EXCEPT !.mode = "image"])

\* C16: for every source size and configuration with a deterministic crop
\* style, prepare_image called with size-only metadata completes without
\* error and returns the crop coordinates, the aspect ratio and the size of
\* the image that the pixel path returns for the same inputs, also when a
\* resize or a pre-shrink is needed and when crop_aspect is square.
C16_MetadataMatchesPixels ==
    (IsCall("prepare_image") /\ call.mode = "metadata" /\ Finished(frame)
        /\ DeterministicCrop /\ PixelPath.pc = "return") =>
      /\ frame.pc = "return"
      /\ frame.result = PixelPath.result

\* A dimension of the working size exceeds 1.5 times its target.
ExceedsTarget ==
    \/ 2 * frame.current_width > 3 * call.target[1]
    \/ 2 * frame.current_height > 3 * call.target[2]

\* C17: for all positive current and target sizes, _resize_image is a no-op
\* when the sizes are equal; otherwise its staging loop terminates, every
\* intermediate size has both dimensions at least the target's, the loop
\* ends only when neither dimension exceeds 1.5 times its target, and the
\* output has exactly the target size.
C17_StagedResize ==
    /\ [](IsCall("_resize_image") =>
            /\ (call.size = call.target /\ Finished(frame)) =>
                   (frame.pc = "return" /\ frame.stages = 0
                        /\ frame.result = call.size)
            /\ (frame.pc = "loop" /\ frame.stages > 0) =>
                   (frame.current_width >= call.target[1]
                        /\ frame.current_height >= call.target[2])
            /\ (frame.pc = "loop" /\ ExceedsTarget) =>
                   resize_step(frame, call.mode, call.target[1],
                               call.target[2]).pc = "loop"
            /\ Finished(frame) =>
                   (frame.pc = "return" /\ frame.result = call.target))
    /\ IsCall("_resize_image") ~> (frame.pc = "return")
\* The same for the calls that are given a PIL image.
StagedResizeOfImages ==
    /\ [](IsCall("_resize_image") /\ call.mode = "image" =>
            /\ (call.size = call.target /\ Finished(frame)) =>
                   (frame.pc = "return" /\ frame.stages = 0
                        /\ frame.result = call.size)
            /\ (frame.pc = "loop" /\ frame.stages > 0) =>
                   (frame.current_width >= call.target[1]
                        /\ frame.current_height >= call.target[2])
            /\ (frame.pc = "loop" /\ ExceedsTarget) =>
                   resize_step(frame, call.mode, call.target[1],
                               call.target[2]).pc = "loop"
            /\ Finished(frame) =>
                   (frame.pc = "return" /\ frame.result = call.target))
    /\ (IsCall("_resize_image") /\ call.mode = "image")
           ~> (frame.pc = "return")

\* The call has a configuration error: an unknown resolution type, a
\* configured crop style that is no known style, or an aspect ratio that is
\* not a float.
ConfigurationError ==
    \/ /\ IsCall("prepare_image")
       /\ \/ call.resolution_type \notin {"pixel", "area"}
          \/ call.config.crop_style \notin crop_handler_styles \cup {"unset"}
    \/ /\ IsCall("calculate_new_size_by_pixel_edge")
             \/ IsCall("calculate_new_size_by_pixel_area")
       /\ call.aspect_ratio.type # "float"

\* C18: every call whose resolution_type is neither pixel nor area, or whose
\* configured crop style is not a known style, or whose aspect ratio is not
\* a float, ends by raising ValueError and returns no image, size or crop
\* coordinates, whatever the other settings are.
C18_ConfigurationErrorsRaise ==
    (ConfigurationError /\ Finished(frame)) =>
        (frame.pc = "raise" /\ frame.error = "ValueError")

\* str() of a float n / d whose d is a power of ten: the integer part, a
\* point, and the decimals without trailing zeros (at least one decimal).
RECURSIVE Decimals(_, _)
Decimals(fr, width) ==
    IF width > 1 /\ fr % 10 = 0 THEN Decimals(fr \div 10, width - 1)
    ELSE IF width = 1 THEN ToString(fr)
    ELSE Decimals(fr \div 10, width - 1) \o ToString(fr % 10)
RECURSIVE Log10(_)
Log10(d) == IF d = 1 THEN 0 ELSE 1 + Log10(d \div 10)
StrOfFloat(a) ==
    IF a.d = 1 THEN ToString(a.n) \o ".0"
    ELSE ToString(a.n \div a.d) \o "." \o Decimals(a.n % a.d, Log10(a.d))

\* C19: for every image size and every configured aspect-rounding precision,
\* the bucket key under which the index stores a file of that size equals
\* the rounded aspect ratio calculate_image_aspect_ratio returns for the same
\* width and height.
C19_KeyRoundedAlike ==
    (IsCall("prepare_image")
        /\ frame.pc \in {"crop_config", "preshrink", "crop", "no_crop",
                         "finish", "return"}) =>
      /\ BucketKey([w |-> call.size[1], h |-> call.size[2]])
             = StrOfFloat(frame.original_aspect_ratio)
      /\ AddKey([w |-> call.size[1], h |-> call.size[2]])
             = StrOfFloat(frame.original_aspect_ratio)


\* C20: when the bulk computation returns, the progress queue and the result
\* queue are both empty, no worker holds an unsent message, and the progress
\* bar has counted every candidate file.
C20_ChannelsDrained ==
    pc = "returning" =>
      /\ tqdm_queue = 0
      /\ aspect_ratio_bucket_indices_queue = <<>>
      /\ \A s \in Shards :
            workers[s].tqdm_buf = 0 /\ workers[s].res_buf = 0
      /\ pbar = Len(all_image_files)


(***************************************************************************)
(* File discovery: rglob_follow_symlinks.                                  *)
(***************************************************************************)
\* The directories of a tree are 1..MaxDirs, directory 1 is the root.
MaxDirs == 3
\* sys.getrecursionlimit(): the depth of nested generators at which the
\* interpreter raises RecursionError.
RecursionLimit == 5
Dirs == 1..MaxDirs

\* What a directory's symbolic link, if it has one, points to: nothing
\* (there is no link), the link itself, a regular file, or a directory.
\* os.readlink gives the target as an absolute path.
LinkTargets ==
    [kind : {"none", "self", "file"}, target : {0}]
        \cup [kind : {"dir"}, target : Dirs]

\* A finite directory structure: the parent of each directory but the
\* root, the number of image files in each directory, and its link.
DirectoryStructures ==
    {[parent |-> pa, files |-> fi, link |-> li] :
        pa \in {q \in [Dirs -> 0..MaxDirs] :
                   q[1] = 0 /\ \A d \in Dirs \ {1} : q[d] \in 1..(d - 1)},
        fi \in [Dirs -> 0..1],
        li \in [Dirs -> LinkTargets]}

\* path.glob(pattern): the image files directly in the directory (line 177).
glob(c, path) == [k \in 1..c.files[path] |-> <<path, k>>]

\* path.iterdir() (line 179): the subdirectories, then the link.
RECURSIVE subdirs(_, _, _)
subdirs(c, path, d) ==
    IF d > MaxDirs THEN <<>>
    ELSE (IF c.parent[d] = path
          THEN <<[is_symlink |-> FALSE, target |-> d, is_dir |-> TRUE]>>
          ELSE <<>>) \o subdirs(c, path, d + 1)
\* p.is_dir() follows the link: true exactly when it leads to a directory.
iterdir(c, path) ==
    subdirs(c, path, 1) \o
        (IF c.link[path].kind = "none" THEN <<>>
         ELSE <<[is_symlink |-> TRUE, target |-> c.link[path].target,
                 is_dir |-> c.link[path].kind = "dir"]>>)

\* A generator of rglob_follow_symlinks over path, before its first step.
Generator(path) == [path |-> path, at |-> "glob", i |-> 1]
WalkEnter == [pc |-> "walk", stack |-> <<Generator(1)>>, found |-> <<>>]

\* yield from rglob_follow_symlinks(p, pattern): one more nested generator.
descend(f, rest, top, path) ==
    IF Len(f.stack) >= RecursionLimit THEN Raised("RecursionError")
    ELSE [f EXCEPT !.stack = rest \o <<[top EXCEPT !.i = @ + 1],
                                       Generator(path)>>]

\* One step of the innermost generator (lines 176-185): the glob loop, or
\* one pass of the iterdir loop, or the generator's end.
rglob_step(f, c) ==
    LET top == f.stack[Len(f.stack)]
        rest == SubSeq(f.stack, 1, Len(f.stack) - 1)
        entries == iterdir(c, top.path)
    IN  IF top.at = "glob"
        THEN [f EXCEPT !.found = @ \o glob(c, top.path),
                       !.stack = rest \o <<[top EXCEPT !.at = "iterdir"]>>]
        ELSE IF top.i > Len(entries)
        THEN IF rest = <<>>
             THEN [pc |-> "return", stack |-> <<>>, found |-> f.found]
             ELSE [f EXCEPT !.stack = rest]
        ELSE LET p == entries[top.i]
             IN  IF p.is_dir /\ ~p.is_symlink
                 THEN descend(f, rest, top, p.target)
                 ELSE IF p.is_symlink /\ p.is_dir
                 THEN descend(f, rest, top, p.target)
                 ELSE [f EXCEPT !.stack = rest \o <<[top EXCEPT !.i = @ + 1]>>]

DiscoveryCalls ==
    {[fn |-> "rglob_follow_symlinks", parent |-> t.parent, files |-> t.files,
      link |-> t.link] : t \in DirectoryStructures}

RglobStep ==
    /\ call.fn = "rglob_follow_symlinks"
    /\ ~Finished(frame)
    /\ frame' = rglob_step(frame, call)
    /\ UNCHANGED <<call, storeVars>>

\* list(rglob_follow_symlinks(root, pattern)) over one directory structure;
\* a generator that can take a step does take it.
InitDiscovery ==
    /\ StoreIdle
    /\ call \in DiscoveryCalls
    /\ frame = WalkEnter
NextDiscovery == RglobStep
SpecDiscovery ==
    InitDiscovery /\ [][NextDiscovery]_vars /\ WF_vars(NextDiscovery)

\* C21: on every finite directory structure, also one where a symbolic link
\* points to itself or to an ancestor of its directory, file discovery
\* ends, and it ends by returning the files rather than by raising.
C21_DiscoveryTerminates ==
    /\ [](IsCall("rglob_follow_symlinks") /\ Finished(frame)
            => frame.pc = "return")
    /\ IsCall("rglob_follow_symlinks") ~> (frame.pc = "return")

=============================================================================
